---------------------------- MODULE Spec2Model ----------------------------
(***************************************************************************)
(* Model of traderiskmangment.py: the Black-Scholes forward-price option   *)
(* pricer (class BlackScholeForwardPrice) and the one-day historical VaR   *)
(* calculator (class VaRCalculation).                                      *)
(*                                                                         *)
(* Floating-point numbers are modelled as fixed-point integers with six    *)
(* decimal places (1.0 is Scale), together with the three IEEE special     *)
(* values +inf, -inf and NaN that numpy's arithmetic produces instead of   *)
(* raising.  exp, log, sqrt and the normal CDF are computed by series on   *)
(* this representation.                                                    *)
(***************************************************************************)
EXTENDS Integers, Sequences, FiniteSets, TLC

VARIABLES option, var, ret

vars == <<option, var, ret>>

----------------------------------------------------------------------------
(* Fixed-point floating-point values                                       *)

Scale == 1000 * 1000

FinMax == 2000 * Scale
PInf == FinMax
NInf == 0 - FinMax
NaN == FinMax + 1

IsSpecial(x) == x = PInf \/ x = NInf \/ x = NaN
IsFinite(x) == ~IsSpecial(x)

Abs(x) == IF x < 0 THEN 0 - x ELSE x
Sgn(x) == IF x < 0 THEN 0 - 1 ELSE IF x > 0 THEN 1 ELSE 0

\* |a * b| for non-negative fixed-point a, b, rounded to nearest
MulRaw(a, b) ==
  LET a1 == a \div 1000
      a0 == a % 1000
      b1 == b \div 1000
      b0 == b % 1000
  IN  a1 * b1 + ((a1 * b0 + a0 * b1 + (a0 * b0 + 500) \div 1000 + 500) \div 1000)

RECURSIVE DivDigits(_, _, _, _)
DivDigits(r, b, k, acc) ==
  IF k = 0 THEN (IF 2 * r >= b THEN acc + 1 ELSE acc)
  ELSE DivDigits((r * 10) % b, b, k - 1, acc * 10 + ((r * 10) \div b))

\* |a / b| for non-negative fixed-point a and positive b, rounded to nearest
RECURSIVE DivRaw(_, _)
DivRaw(a, b) ==
  IF b > 200 * Scale THEN DivRaw((a + 5) \div 10, (b + 5) \div 10)
  ELSE DivDigits(a % b, b, 6, a \div b)

FNeg(a) == IF a = NaN THEN NaN ELSE 0 - a

FAdd(a, b) ==
  IF a = NaN \/ b = NaN THEN NaN
  ELSE IF (a = PInf /\ b = NInf) \/ (a = NInf /\ b = PInf) THEN NaN
  ELSE IF IsSpecial(a) THEN a
  ELSE IF IsSpecial(b) THEN b
  ELSE a + b

FSub(a, b) == FAdd(a, FNeg(b))

FMul(a, b) ==
  IF a = NaN \/ b = NaN THEN NaN
  ELSE IF IsSpecial(a) \/ IsSpecial(b)
       THEN (IF a = 0 \/ b = 0 THEN NaN
             ELSE IF Sgn(a) * Sgn(b) > 0 THEN PInf ELSE NInf)
  ELSE Sgn(a) * Sgn(b) * MulRaw(Abs(a), Abs(b))

\* numpy true division: x/0 is +-inf, 0/0 is NaN (a warning, no exception)
FDiv(a, b) ==
  IF a = NaN \/ b = NaN THEN NaN
  ELSE IF IsSpecial(a) /\ IsSpecial(b) THEN NaN
  ELSE IF IsSpecial(b) THEN 0
  ELSE IF IsSpecial(a)
       THEN (IF Sgn(a) * Sgn(b) >= 0 THEN PInf ELSE NInf)
  ELSE IF b = 0
       THEN (IF a = 0 THEN NaN ELSE IF a > 0 THEN PInf ELSE NInf)
  ELSE Sgn(a) * Sgn(b) * DivRaw(Abs(a), Abs(b))

\* largest n in lo..hi with n * n <= x
RECURSIVE ISqrt(_, _, _)
ISqrt(x, lo, hi) ==
  IF lo >= hi THEN lo
  ELSE LET mid == (lo + hi + 1) \div 2
       IN  IF mid * mid <= x THEN ISqrt(x, mid, hi) ELSE ISqrt(x, lo, mid - 1)

RECURSIVE Newton(_, _, _)
Newton(x, y, k) ==
  IF k = 0 THEN y ELSE Newton(x, (y + DivRaw(x, y) + 1) \div 2, k - 1)

\* np.sqrt: NaN for a negative argument
FSqrt(x) ==
  IF x = NaN \/ x = NInf THEN NaN
  ELSE IF x = PInf THEN PInf
  ELSE IF x < 0 THEN NaN
  ELSE IF x = 0 THEN 0
  ELSE Newton(x, (ISqrt(x, 0, 46340) + 1) * 1000, 3)

\* sum of x^n / n! for n = k..12, given t = x^(k-1)/(k-1)!
RECURSIVE ExpSeries(_, _, _)
ExpSeries(x, t, k) ==
  IF k > 12 \/ t = 0 THEN 0
  ELSE LET u == FMul(t, x) \div k IN u + ExpSeries(x, u, k + 1)

RECURSIVE ExpFin(_)
ExpFin(x) ==
  IF x < 0 - 20 * Scale THEN 0
  ELSE IF Abs(x) > Scale \div 2
       THEN LET h == ExpFin(x \div 2) IN FMul(h, h)
  ELSE Scale + ExpSeries(x, Scale, 1)

\* np.exp
FExp(x) ==
  IF x = NaN THEN NaN
  ELSE IF x = PInf THEN PInf
  ELSE IF x = NInf THEN 0
  ELSE ExpFin(x)

\* sum of z^(2j+1)/(2j+1) for odd n = 2j+1 >= k, given p = z^k
RECURSIVE AtanhSeries(_, _, _)
AtanhSeries(z2, p, k) ==
  IF k > 25 \/ p = 0 THEN 0
  ELSE (p \div k) + AtanhSeries(z2, FMul(p, z2), k + 2)

\* ln x for 1 <= x <= 2 by 2 * atanh((x - 1) / (x + 1))
LnUnit(x) ==
  LET z == FDiv(x - Scale, x + Scale)
  IN  2 * AtanhSeries(FMul(z, z), z, 1)

Ln2 == LnUnit(2 * Scale)

RECURSIVE LnFin(_)
LnFin(x) ==
  IF x > 2 * Scale THEN LnFin((x + 1) \div 2) + Ln2
  ELSE IF x < Scale THEN LnFin(2 * x) - Ln2
  ELSE LnUnit(x)

\* np.log: -inf at 0, NaN below 0 (warnings, no exception)
FLog(x) ==
  IF x = NaN \/ x = NInf THEN NaN
  ELSE IF x = PInf THEN PInf
  ELSE IF x < 0 THEN NaN
  ELSE IF x = 0 THEN NInf
  ELSE LnFin(x)

\* 1 / sqrt(2 * pi)
InvSqrt2Pi == FDiv(Scale, FSqrt(6283185))

\* the standard normal density
Pdf(a) == FMul(InvSqrt2Pi, ExpFin(0 - (FMul(a, a) \div 2)))

\* sum of a^(2n+1) / (1*3*...*(2n+1)) from the term t of odd index k on
RECURSIVE CdfSeries(_, _, _)
CdfSeries(a2, t, k) ==
  IF k > 121 \/ t = 0 THEN 0
  ELSE t + CdfSeries(a2, FMul(t, a2) \div (k + 2), k + 2)

\* 1 - 1/a^2 + 3/a^4 - 15/a^6 + 105/a^8, the upper tail's asymptotic factor
CdfTailFactor(a) ==
  LET i2 == FDiv(Scale, FMul(a, a))
      i4 == FMul(i2, i2)
      i6 == FMul(i4, i2)
      i8 == FMul(i4, i4)
  IN  Scale - i2 + 3 * i4 - 15 * i6 + 105 * i8

\* Phi(a) for finite a >= 0
CdfUpper(a) ==
  IF a > 6 * Scale THEN Scale
  ELSE IF a > 3 * Scale
       THEN Scale - FMul(FDiv(Pdf(a), a), CdfTailFactor(a))
  ELSE (Scale \div 2) + FMul(Pdf(a), CdfSeries(FMul(a, a), a, 1))

\* scipy.stats.norm.cdf
Cdf(x) ==
  IF x = NaN THEN NaN
  ELSE IF x = PInf THEN Scale
  ELSE IF x = NInf THEN 0
  ELSE IF x >= 0 THEN CdfUpper(x)
  ELSE Scale - CdfUpper(0 - x)
----------------------------------------------------------------------------
(* Python values, isinstance, datetime.strptime                            *)

\* a Python object passed as an argument: its class and, for a number, its
\* value (True is 1, False is 0); text holds a str's characters
PyInt(n) == [type |-> "int", val |-> n * Scale, text |-> <<>>]
PyFloat(micro) == [type |-> "float", val |-> micro, text |-> <<>>]
PyBool(b) == [type |-> "bool", val |-> IF b THEN Scale ELSE 0, text |-> <<>>]
PyStr(chars) == [type |-> "str", val |-> 0, text |-> chars]
PyNone == [type |-> "NoneType", val |-> 0, text |-> <<>>]
\* self.<name> of an attribute that was never assigned
Missing == [type |-> "missing", val |-> 0, text |-> <<>>]

\* the direct base class of each built-in class (bool derives from int)
BaseOf(cls) == IF cls = "bool" THEN "int" ELSE "object"

RECURSIVE IsSubclass(_, _)
IsSubclass(cls, of) ==
  IF cls = of THEN TRUE
  ELSE IF cls = "object" THEN FALSE
  ELSE IsSubclass(BaseOf(cls), of)

\* isinstance(value, classes)
IsInstance(value, classes) == \E c \in classes : IsSubclass(value.type, c)

Digits == <<"0", "1", "2", "3", "4", "5", "6", "7", "8", "9">>
IsDigit(c) == \E i \in 1..10 : Digits[i] = c
DigitVal(c) == (CHOOSE i \in 1..10 : Digits[i] = c) - 1
InRange(c, lo, hi) == IsDigit(c) /\ DigitVal(c) >= lo /\ DigitVal(c) <= hi

\* int(text) of a group the regular expression matched (digits, or a space
\* in front of one digit)
RECURSIVE IntOf(_)
IntOf(t) ==
  IF t = <<>> THEN 0
  ELSE IF t[Len(t)] = " " THEN IntOf(SubSeq(t, 1, Len(t) - 1))
  ELSE 10 * IntOf(SubSeq(t, 1, Len(t) - 1)) + DigitVal(t[Len(t)])

\* %Y: \d\d\d\d
ReYear(t) == Len(t) = 4 /\ \A i \in 1..4 : IsDigit(t[i])
\* %m: 1[0-2]|0[1-9]|[1-9]
ReMonth(t) ==
  \/ Len(t) = 2 /\ t[1] = "1" /\ InRange(t[2], 0, 2)
  \/ Len(t) = 2 /\ t[1] = "0" /\ InRange(t[2], 1, 9)
  \/ Len(t) = 1 /\ InRange(t[1], 1, 9)
\* %d: 3[0-1]|[1-2]\d|0[1-9]|[1-9]| [1-9]
ReDay(t) ==
  \/ Len(t) = 2 /\ t[1] = "3" /\ InRange(t[2], 0, 1)
  \/ Len(t) = 2 /\ InRange(t[1], 1, 2) /\ IsDigit(t[2])
  \/ Len(t) = 2 /\ t[1] = "0" /\ InRange(t[2], 1, 9)
  \/ Len(t) = 1 /\ InRange(t[1], 1, 9)
  \/ Len(t) = 2 /\ t[1] = " " /\ InRange(t[2], 1, 9)

\* the places j of the second "-" at which "%Y-%m-%d" matches all of t
FormatSplits(t) ==
  {j \in 7..(Len(t) - 1) :
      /\ ReYear(SubSeq(t, 1, 4))
      /\ t[5] = "-"
      /\ ReMonth(SubSeq(t, 6, j - 1))
      /\ t[j] = "-"
      /\ ReDay(SubSeq(t, j + 1, Len(t)))}

IsLeap(y) == (y % 4 = 0) /\ ((y % 100 # 0) \/ (y % 400 = 0))
DaysInMonth(y, m) ==
  IF m = 2 THEN (IF IsLeap(y) THEN 29 ELSE 28)
  ELSE IF m \in {4, 6, 9, 11} THEN 30 ELSE 31

\* datetime(year, month, day) raises ValueError outside these ranges
IsCalendarDate(y, m, d) ==
  y >= 1 /\ y <= 9999 /\ m >= 1 /\ m <= 12 /\ d >= 1 /\ d <= DaysInMonth(y, m)

NoDate == [year |-> 0, month |-> 0, day |-> 0]

\* datetime.strptime(text, "%Y-%m-%d"): the datetime, or NoDate when it raises
strptime(t) ==
  IF FormatSplits(t) = {} THEN NoDate
  ELSE LET j == CHOOSE k \in FormatSplits(t) : TRUE
           y == IntOf(SubSeq(t, 1, 4))
           m == IntOf(SubSeq(t, 6, j - 1))
           d == IntOf(SubSeq(t, j + 1, Len(t)))
       IN  IF IsCalendarDate(y, m, d) THEN [year |-> y, month |-> m, day |-> d]
           ELSE NoDate

RECURSIVE DaysBeforeMonth(_, _)
DaysBeforeMonth(y, m) ==
  IF m = 1 THEN 0 ELSE DaysBeforeMonth(y, m - 1) + DaysInMonth(y, m - 1)

\* datetime.toordinal: days since 0001-01-01, which is day 1
Ordinal(dt) ==
  LET y == dt.year - 1
  IN  365 * y + (y \div 4) - (y \div 100) + (y \div 400)
        + DaysBeforeMonth(dt.year, dt.month) + dt.day

----------------------------------------------------------------------------
(* class BlackScholeForwardPrice                                           *)

\* _validate_date: the parsed datetime, or raised
_validate_date(value) ==
  IF ~IsInstance(value, {"str"}) THEN [raised |-> TRUE, value |-> NoDate]
  ELSE LET dt == strptime(value.text)
       IN  [raised |-> dt = NoDate, value |-> dt]

\* _validate_float: the value itself, or raised
_validate_float(value) ==
  [raised |-> ~IsInstance(value, {"int", "float"}), value |-> value]

NoOption == [class |-> "NoneType"]

\* a faulty variant of time_to_expiration: the day count loses its sign
time_to_expiration_unsigned(self) ==
  FDiv(Abs(Ordinal(self.expiry_date) - Ordinal(self.trade_date)) * Scale,
       365 * Scale)

\* (self.expiry_date - self.trade_date).days / 365
time_to_expiration(self) ==
  FDiv((Ordinal(self.expiry_date) - Ordinal(self.trade_date)) * Scale, 365 * Scale)

forward_price(self) ==
  FMul(self.stock_price.val, FExp(FMul(self.risk_free.val, time_to_expiration(self))))

\* a faulty variant of d1: a zero time to expiry is replaced by a finite d1
d1_guarded(self) ==
  IF time_to_expiration(self) = 0 THEN 0
  ELSE FDiv(FAdd(FLog(FDiv(forward_price(self), self.strike_price.val)),
                 FMul(FDiv(FMul(self.sigma.val, self.sigma.val), 2 * Scale),
                      time_to_expiration(self))),
            FMul(self.sigma.val, FSqrt(time_to_expiration(self))))

d1(self) ==
  FDiv(FAdd(FLog(FDiv(forward_price(self), self.strike_price.val)),
            FMul(FDiv(FMul(self.sigma.val, self.sigma.val), 2 * Scale),
                 time_to_expiration(self))),
       FMul(self.sigma.val, FSqrt(time_to_expiration(self))))

d2(self) ==
  FSub(d1(self), FMul(self.sigma.val, FSqrt(time_to_expiration(self))))

call_options(self) ==
  FMul(FExp(FMul(FNeg(self.risk_free.val), time_to_expiration(self))),
       FSub(FMul(forward_price(self), Cdf(d1(self))),
            FMul(self.strike_price.val, Cdf(d2(self)))))

\* a faulty variant of put_options: the strike is not discounted
put_options_undiscounted(self) ==
  FAdd(FSub(call_options(self), self.stock_price.val), self.strike_price.val)

put_options(self) ==
  FAdd(FSub(call_options(self), self.stock_price.val),
       FMul(self.strike_price.val,
            FExp(FMul(FNeg(self.risk_free.val), time_to_expiration(self)))))
\* the outcome of an operation: what it returned (value, or vec for an
\* array) or the exception it raised; args keeps a constructor's arguments
Outcome(op, raised, msg, value, vec, args) ==
  [op |-> op, raised |-> raised, msg |-> msg, value |-> value, vec |-> vec,
   args |-> args]
NoArgs == <<>>
Returned(op, value) == Outcome(op, "", "", value, <<>>, NoArgs)

\* BlackScholeForwardPrice(...): the validations run in this order and the
\* first that fails raises ValueError; no instance exists then
BlackScholeInit(a) ==
  LET td == _validate_date(a.trade_date)
      ed == _validate_date(a.expiry_date)
      failed ==
        IF td.raised THEN "trade_date"
        ELSE IF ed.raised THEN "expiry_date"
        ELSE IF _validate_float(a.stock_price).raised THEN "Stock price (S)"
        ELSE IF _validate_float(a.strike_price).raised THEN "Strike price (K)"
        ELSE IF _validate_float(a.risk_free).raised THEN "Risk free rate (r)"
        ELSE IF _validate_float(a.sigma).raised THEN "sigma"
        ELSE ""
  IN  IF failed # ""
      THEN [self |-> NoOption,
            ret |-> Outcome("init", "ValueError", failed, 0, <<>>, a)]
      ELSE [self |-> [class |-> "BlackScholeForwardPrice",
                      trade_date |-> td.value,
                      expiry_date |-> ed.value,
                      stock_price |-> _validate_float(a.stock_price).value,
                      strike_price |-> _validate_float(a.strike_price).value,
                      risk_free |-> _validate_float(a.risk_free).value,
                      sigma |-> _validate_float(a.sigma).value,
                      spot_price |-> Missing],
            ret |-> Outcome("init", "", "", 0, <<>>, a)]

----------------------------------------------------------------------------
(* The arguments the pricer is exercised with                              *)

Chars2(n) == <<Digits[(n \div 10) + 1], Digits[(n % 10) + 1]>>
\* the text YYYY-MM-DD of a date
Iso(y, m, d) ==
  Chars2(y \div 100) \o Chars2(y % 100) \o <<"-">> \o Chars2(m) \o <<"-">>
    \o Chars2(d)

FixtureTrade == PyStr(Iso(2022, 11, 23))
FixtureExpiry == PyStr(Iso(2023, 5, 10))

DateArgs ==
  { FixtureTrade, FixtureExpiry,
    PyStr(Iso(2022, 11, 24)),
    PyStr(Iso(2024, 2, 29)),
    PyStr(<<"2", "0", "2", "3", "-", "5", "-", "9">>),
    PyStr(<<"2", "0", "2", "3", "-", "0", "5", "-", " ", "8">>),
    PyStr(<<"2", "0", "2", "3", "/", "0", "5", "/", "1", "0">>),
    PyStr(Iso(2023, 2, 30)),
    PyStr(<<"2", "3", "-", "0", "5", "-", "1", "0">>),
    PyStr(Iso(2023, 5, 10) \o <<" ">>),
    PyInt(2023),
    PyNone }

StockArgs ==
  { PyInt(19), PyInt(17), PyInt(15), PyInt(0), PyFloat(0 - 19500000),
    PyBool(TRUE), PyStr(<<"1", "9">>), PyNone }
StrikeArgs ==
  { PyInt(17), PyInt(0), PyStr(<<"1", "7">>) }
RateArgs ==
  { PyFloat(5000), PyFloat(0 - 5000), PyNone }
\* volatilities are not negative: the sign of a zero is not modelled
SigmaArgs ==
  { PyFloat(300000), PyInt(0), PyStr(<<"0", ".", "3">>) }

\* the values the tests assign to re-price
AssignedSpots == { PyInt(17), PyInt(15) }

OptionArgs(td, ed, s, k, r, v) ==
  [trade_date |-> td, expiry_date |-> ed, stock_price |-> s,
   strike_price |-> k, risk_free |-> r, sigma |-> v]

\* the test fixture: ('2022-11-23', '2023-05-10', 19, 17, 0.005, 0.3)
FixtureArgs ==
  OptionArgs(FixtureTrade, FixtureExpiry, PyInt(19), PyInt(17), PyFloat(5000),
             PyFloat(300000))

\* every pair of dates with the fixture's numbers, and every combination of
\* numbers with the fixture's dates or with equal dates
ConstructorArgs ==
  { OptionArgs(td, ed, FixtureArgs.stock_price, FixtureArgs.strike_price,
               FixtureArgs.risk_free, FixtureArgs.sigma) :
      td \in DateArgs, ed \in DateArgs }
  \cup
  { OptionArgs(FixtureTrade, ed, s, k, r, v) :
      ed \in {FixtureExpiry, FixtureTrade},
      s \in StockArgs, k \in StrikeArgs, r \in RateArgs, v \in SigmaArgs }

----------------------------------------------------------------------------
(* The pricer's operations as actions                                      *)

Start == Outcome("none", "", "", 0, <<>>, NoArgs)
NoVar == [class |-> "NoneType"]

HasOption == option # NoOption

\* option = BlackScholeForwardPrice(...)
NewOption ==
  /\ ret = Start
  /\ \E a \in ConstructorArgs :
       /\ option' = BlackScholeInit(a).self
       /\ ret' = BlackScholeInit(a).ret
  /\ UNCHANGED var

\* option.spot_price = v: creates or rebinds the attribute spot_price
SetSpotPrice ==
  /\ HasOption
  /\ \E v \in AssignedSpots :
       option' = [option EXCEPT !.spot_price = v]
  /\ ret' = Returned("setattr", 0)
  /\ UNCHANGED var

\* option.stock_price = v
SetStockPrice ==
  /\ HasOption
  /\ \E v \in AssignedSpots :
       option' = [option EXCEPT !.stock_price = v]
  /\ ret' = Returned("setattr", 0)
  /\ UNCHANGED var

TimeToExpiration ==
  /\ HasOption
  /\ ret' = Returned("time_to_expiration", time_to_expiration(option))
  /\ UNCHANGED <<option, var>>

D1 ==
  /\ HasOption
  /\ ret' = Returned("d1", d1(option))
  /\ UNCHANGED <<option, var>>

CallOptions ==
  /\ HasOption
  /\ ret' = Returned("call_options", call_options(option))
  /\ UNCHANGED <<option, var>>

PutOptions ==
  /\ HasOption
  /\ ret' = Returned("put_options", put_options(option))
  /\ UNCHANGED <<option, var>>

Init ==
  /\ option = NoOption
  /\ var = NoVar
  /\ ret = Start

OptionNext ==
  \/ NewOption
  \/ SetSpotPrice
  \/ SetStockPrice
  \/ TimeToExpiration
  \/ D1
  \/ CallOptions
  \/ PutOptions

OptionSpec == Init /\ [][OptionNext]_vars
----------------------------------------------------------------------------
(* class VaRCalculation                                                    *)

\* a numpy array, a list or a scalar passed as a rate series, with its
\* elements
NdArray(data) == [type |-> "ndarray", data |-> data]
PyList(data) == [type |-> "list", data |-> data]
Scalar(x) == [type |-> "float", data |-> <<x>>]

\* _validate_array
_validate_array(value) ==
  [raised |-> ~IsInstance(value, {"ndarray"}), value |-> value]

\* VaRCalculation._validate_float
var_validate_float(value) ==
  [raised |-> ~IsInstance(value, {"int", "float"}), value |-> value]

\* VaRCalculation(...)
VaRInit(a) ==
  LET failed ==
        IF _validate_array(a.market_rate_1).raised THEN "market_rate_1"
        ELSE IF _validate_array(a.market_rate_2).raised THEN "market_rate_2"
        ELSE IF var_validate_float(a.spot_price_1).raised THEN "spot_price_1"
        ELSE IF var_validate_float(a.spot_price_2).raised THEN "spot_price_2"
        ELSE ""
  IN  IF failed # ""
      THEN [self |-> NoVar,
            ret |-> Outcome("var_init", "ValueError", failed, 0, <<>>, a)]
      ELSE [self |-> [class |-> "VaRCalculation",
                      market_rate_1 |-> _validate_array(a.market_rate_1).value,
                      market_rate_2 |-> _validate_array(a.market_rate_2).value,
                      spot_price_1 |-> var_validate_float(a.spot_price_1).value,
                      spot_price_2 |-> var_validate_float(a.spot_price_2).value],
            ret |-> Outcome("var_init", "", "", 0, <<>>, a)]

\* x[:-1] and x[1:] of a one-dimensional array
AllButLast(x) == SubSeq(x, 1, Len(x) - 1)
AllButFirst(x) == SubSeq(x, 2, Len(x))

\* a faulty variant of BroadcastLen: only equal shapes combine
BroadcastLenEqualOnly(m, n) == IF m = n THEN m ELSE 0 - 1

\* the shape two one-dimensional arrays broadcast to, or -1 when numpy
\* raises "operands could not be broadcast together"
BroadcastLen(m, n) ==
  IF m = n THEN m
  ELSE IF m = 1 THEN n
  ELSE IF n = 1 THEN m
  ELSE 0 - 1

\* element i of x stretched to length n
Stretched(x, i) == IF Len(x) = 1 THEN x[1] ELSE x[i]

\* x + y of two arrays
ArrAdd(x, y) ==
  LET n == BroadcastLen(Len(x), Len(y))
  IN  IF n < 0 THEN [raised |-> TRUE, vec |-> <<>>]
      ELSE [raised |-> FALSE,
            vec |-> [i \in 1..n |-> FAdd(Stretched(x, i), Stretched(y, i))]]

\* a faulty variant of pnl_vector: each rate is divided by the previous one
pnl_vector_reversed(spot_price, market_rate) ==
  LET num == AllButFirst(market_rate.data)
      den == AllButLast(market_rate.data)
  IN  [i \in 1..Len(num) |->
         FMul(FSub(FExp(FLog(FDiv(num[i], den[i]))), Scale), spot_price.val)]

\* (np.exp(np.log(market_rate[:-1] / market_rate[1:])) - 1) * spot_price
pnl_vector(spot_price, market_rate) ==
  LET num == AllButLast(market_rate.data)
      den == AllButFirst(market_rate.data)
  IN  [i \in 1..Len(num) |->
         FMul(FSub(FExp(FLog(FDiv(num[i], den[i]))), Scale), spot_price.val)]

\* s with v put in front of its first element that is not below v
RECURSIVE Insert(_, _)
Insert(s, v) ==
  IF s = <<>> THEN <<v>>
  ELSE IF v <= s[1] THEN <<v>> \o s
  ELSE <<s[1]>> \o Insert(Tail(s), v)

\* np.sort: a new array in ascending order
RECURSIVE np_sort(_)
np_sort(s) ==
  IF s = <<>> THEN <<>> ELSE Insert(np_sort(Tail(s)), s[1])

\* total_pnl: the sorted array, or raised when the sum cannot broadcast
total_pnl(self) ==
  LET sum == ArrAdd(pnl_vector(self.spot_price_1, self.market_rate_1),
                    pnl_vector(self.spot_price_2, self.market_rate_2))
  IN  IF sum.raised THEN [raised |-> "ValueError", vec |-> <<>>]
      ELSE [raised |-> "", vec |-> np_sort(sum.vec)]

\* the weights of var_cal_oneday
W1 == 4 * (Scale \div 10)
W2 == 6 * (Scale \div 10)

\* a faulty variant of var_cal_oneday: the two smallest elements are used
var_cal_oneday_from_first(self) ==
  LET t == total_pnl(self)
  IN  IF t.raised # "" THEN [raised |-> t.raised, value |-> 0]
      ELSE IF Len(t.vec) < 2 THEN [raised |-> "IndexError", value |-> 0]
      ELSE IF Len(t.vec) < 3 THEN [raised |-> "IndexError", value |-> 0]
      ELSE [raised |-> "",
            value |-> FAdd(FMul(W1, t.vec[1]), FMul(W2, t.vec[2]))]

\* (0.4 * self.total_pnl()[1]) + (0.6 * self.total_pnl()[2]); index k of
\* numpy is element k + 1 here
var_cal_oneday(self) ==
  LET t == total_pnl(self)
  IN  IF t.raised # "" THEN [raised |-> t.raised, value |-> 0]
      ELSE IF Len(t.vec) < 2 THEN [raised |-> "IndexError", value |-> 0]
      ELSE IF Len(t.vec) < 3 THEN [raised |-> "IndexError", value |-> 0]
      ELSE [raised |-> "",
            value |-> FAdd(FMul(W1, t.vec[2]), FMul(W2, t.vec[3]))]

----------------------------------------------------------------------------
(* The arguments the VaR calculator is exercised with                      *)

\* the longest rate series
MaxLen == 5

RateValues == {Scale, 2 * Scale}

\* every series of up to MaxLen rates
AllSeries == UNION {[1..n -> RateValues] : n \in 0..MaxLen}

\* one series of each length up to MaxLen: 1, 2, 2, 1, 2, 2, ...
PatternSeries ==
  {[i \in 1..n |-> IF i % 3 = 1 THEN Scale ELSE 2 * Scale] : n \in 0..MaxLen}

NotArrays == {PyList(<<Scale, 2 * Scale>>), Scalar(Scale)}

FixtureRates1 == NdArray(<<Scale, 2 * Scale, Scale, Scale, 2 * Scale>>)
FixtureRates2 == NdArray(<<2 * Scale, 2 * Scale, Scale, 2 * Scale, Scale>>)

Holding1Args ==
  {PyInt(3), PyFloat(0 - 1500000), PyBool(TRUE), PyStr(<<"3">>), PyNone}
Holding2Args == {PyInt(2), PyInt(0), PyStr(<<"2">>)}

VaRArgs(m1, m2, h1, h2) ==
  [market_rate_1 |-> m1, market_rate_2 |-> m2, spot_price_1 |-> h1,
   spot_price_2 |-> h2]

\* every first series with one second series of each length and the holdings
\* 3 and 2, and every pair of holdings with two series of five rates
VaRConstructorArgs ==
  { VaRArgs(m1, m2, PyInt(3), PyInt(2)) :
      m1 \in {NdArray(d) : d \in AllSeries} \cup NotArrays,
      m2 \in {NdArray(d) : d \in PatternSeries} \cup NotArrays }
  \cup
  { VaRArgs(FixtureRates1, FixtureRates2, h1, h2) :
      h1 \in Holding1Args, h2 \in Holding2Args }

----------------------------------------------------------------------------
(* The VaR calculator's operations as actions                              *)

HasVar == var # NoVar

\* var = VaRCalculation(...)
NewVaR ==
  /\ ret = Start
  /\ \E a \in VaRConstructorArgs :
       /\ var' = VaRInit(a).self
       /\ ret' = VaRInit(a).ret
  /\ UNCHANGED option

\* var.pnl_vector(var.spot_price_i, var.market_rate_i) for asset i
PnlVector ==
  /\ HasVar
  /\ \/ ret' = Outcome("pnl_vector", "", "", 1,
                       pnl_vector(var.spot_price_1, var.market_rate_1), NoArgs)
     \/ ret' = Outcome("pnl_vector", "", "", 2,
                       pnl_vector(var.spot_price_2, var.market_rate_2), NoArgs)
  /\ UNCHANGED <<option, var>>

TotalPnl ==
  /\ HasVar
  /\ ret' = Outcome("total_pnl", total_pnl(var).raised, "", 0,
                    total_pnl(var).vec, NoArgs)
  /\ UNCHANGED <<option, var>>

VarCalOneday ==
  /\ HasVar
  /\ ret' = Outcome("var_cal_oneday", var_cal_oneday(var).raised, "",
                    var_cal_oneday(var).value, <<>>, NoArgs)
  /\ UNCHANGED <<option, var>>

VaRNext ==
  \/ NewVaR
  \/ PnlVector
  \/ TotalPnl
  \/ VarCalOneday

VaRSpec == Init /\ [][VaRNext]_vars
----------------------------------------------------------------------------
(* Properties of the option pricer                                         *)

\* the instance the test fixture builds
FixtureOption == BlackScholeInit(FixtureArgs).self

\* pytest.approx(x, 0.001) == expected
Approx(x, expected) == IsFinite(x) /\ Abs(x - expected) <= expected \div 1000

\* the pricer as it would be if its spot were s
WithSpot(self, s) == [self EXCEPT !.stock_price = s]

\* C1: once the caller has assigned spot_price = s to the fixture pricer
\* (built with spot 19), call_options() and put_options() are computed from
\* s and not from 19: spot_price = 17 gives a call of about 1.39597 and a put
\* of about 1.35699, spot_price = 15 a call of about 0.54279 and a put of
\* about 2.50381.
C1_AssignedSpotIsPriced ==
  (/\ HasOption
   /\ [option EXCEPT !.spot_price = Missing] = FixtureOption
   /\ option.spot_price # Missing) =>
    /\ ret.op = "call_options" =>
         ret.value = call_options(WithSpot(option, option.spot_price))
    /\ ret.op = "put_options" =>
         ret.value = put_options(WithSpot(option, option.spot_price))
    /\ (option = [FixtureOption EXCEPT !.spot_price = PyInt(17)]) =>
         /\ ret.op = "call_options" => Approx(ret.value, 1395970)
         /\ ret.op = "put_options" => Approx(ret.value, 1356990)
    /\ (option = [FixtureOption EXCEPT !.spot_price = PyInt(15)]) =>
         /\ ret.op = "call_options" => Approx(ret.value, 542790)
         /\ ret.op = "put_options" => Approx(ret.value, 2503810)

IsIsoDate(t) ==
  /\ Len(t) = 10
  /\ \A i \in {1, 2, 3, 4, 6, 7, 9, 10} : IsDigit(t[i])
  /\ t[5] = "-" /\ t[8] = "-"
  /\ IsCalendarDate(IntOf(SubSeq(t, 1, 4)), IntOf(SubSeq(t, 6, 7)),
                    IntOf(SubSeq(t, 9, 10)))

IsGoodDate(value) == value.type = "str" /\ IsIsoDate(value.text)
\* an integer or a floating-point number; a boolean is neither
IsNumber(value) == value.type \in {"int", "float"}

\* C3: construction raises whenever trade_date or expiry_date is not a
\* string in the exact format YYYY-MM-DD naming a real date, and that is the
\* only way the dates make it raise.
C3_DateValidation ==
  ret.op = "init" =>
    LET a == ret.args
        good == IsGoodDate(a.trade_date) /\ IsGoodDate(a.expiry_date)
        numbers == /\ IsNumber(a.stock_price) /\ IsNumber(a.strike_price)
                   /\ IsNumber(a.risk_free) /\ IsNumber(a.sigma)
    IN  /\ ~good => (ret.raised = "ValueError" /\ ~HasOption)
        /\ (good /\ numbers) => (ret.raised = "" /\ HasOption)

\* C4: with valid dates, construction raises exactly when one of spot,
\* strike, rate or volatility is not an integer or floating-point number (a
\* string, None or a boolean); every number is stored unchanged.
C4_NumericValidation ==
  (/\ ret.op = "init"
   /\ _validate_date(ret.args.trade_date).raised = FALSE
   /\ _validate_date(ret.args.expiry_date).raised = FALSE) =>
    LET a == ret.args
        numbers == /\ IsNumber(a.stock_price) /\ IsNumber(a.strike_price)
                   /\ IsNumber(a.risk_free) /\ IsNumber(a.sigma)
    IN  /\ (ret.raised = "ValueError") <=> ~numbers
        /\ numbers =>
             /\ HasOption
             /\ option.stock_price = a.stock_price
             /\ option.strike_price = a.strike_price
             /\ option.risk_free = a.risk_free
             /\ option.sigma = a.sigma

\* a is an earlier date than b
DateLess(a, b) ==
  \/ a.year < b.year
  \/ a.year = b.year /\ a.month < b.month
  \/ a.year = b.year /\ a.month = b.month /\ a.day < b.day

\* the first day of the month after a's
NextMonth(a) ==
  IF a.month < 12 THEN [year |-> a.year, month |-> a.month + 1, day |-> 1]
  ELSE [year |-> a.year + 1, month |-> 1, day |-> 1]

\* the number of days from a to the later date b, counted month by month
RECURSIVE DaysUntil(_, _)
DaysUntil(a, b) ==
  IF a.year = b.year /\ a.month = b.month THEN b.day - a.day
  ELSE (DaysInMonth(a.year, a.month) - a.day + 1) + DaysUntil(NextMonth(a), b)

\* the calendar days from a to b, negative when b is earlier
CalendarDays(a, b) ==
  IF DateLess(b, a) THEN 0 - DaysUntil(b, a) ELSE DaysUntil(a, b)

\* the dates the constructor accepts among its arguments
ParsedDates ==
  {strptime(d.text) : d \in {x \in DateArgs : x.type = "str"}} \ {NoDate}

\* C8: time_to_expiration() is the calendar days from trade_date to
\* expiry_date over 365: 0 for equal dates, negative for an earlier expiry,
\* and strictly larger for every later expiry date.
C8_TimeToExpiry ==
  (HasOption /\ ret.op = "time_to_expiration") =>
    LET days == CalendarDays(option.trade_date, option.expiry_date)
    IN  /\ ret.raised = ""
        /\ Abs(ret.value * 365 - days * Scale) <= 365
        /\ (ret.value = 0) <=> (option.trade_date = option.expiry_date)
        /\ (ret.value < 0) <=> DateLess(option.expiry_date, option.trade_date)
        /\ \A e \in ParsedDates :
             DateLess(option.expiry_date, e) =>
               ret.value < time_to_expiration([option EXCEPT !.expiry_date = e])

\* the time to expiry of an expiry before the trade date was computed
C8_Witness ==
  /\ HasOption
  /\ ret.op = "time_to_expiration"
  /\ option.trade_date = [year |-> 2024, month |-> 2, day |-> 29]
  /\ option.expiry_date = [year |-> 2022, month |-> 11, day |-> 24]
  /\ ret.value < 0

\* C9: with trade_date = expiry_date construction succeeds, d1() is the
\* unguarded division by sigma * sqrt(0), so +inf, -inf or NaN and never a
\* finite number or an error, and call_options() and put_options() are
\* computed from that d1: spot - strike for +inf, 0 for -inf, NaN for NaN.
C9_ZeroTimeToExpiry ==
  /\ (/\ ret.op = "init"
      /\ IsGoodDate(ret.args.trade_date)
      /\ ret.args.expiry_date = ret.args.trade_date
      /\ IsNumber(ret.args.stock_price) /\ IsNumber(ret.args.strike_price)
      /\ IsNumber(ret.args.risk_free) /\ IsNumber(ret.args.sigma))
       => (ret.raised = "" /\ HasOption)
  /\ (HasOption /\ option.trade_date = option.expiry_date) =>
       LET s == option.stock_price.val
           k == option.strike_price.val
           call == IF d1(option) = PInf THEN s - k
                   ELSE IF d1(option) = NInf THEN 0
                   ELSE NaN
       IN  /\ ret.raised = ""
           /\ ret.op = "d1" => ret.value \in {PInf, NInf, NaN}
           /\ ret.op = "call_options" => ret.value = call
           /\ ret.op = "put_options" => ret.value = FAdd(FSub(call, s), k)

\* with equal dates and spot = strike the call price came out as NaN
C9_Witness ==
  /\ HasOption
  /\ option.trade_date = option.expiry_date
  /\ option.stock_price = PyInt(17)
  /\ option.strike_price = PyInt(17)
  /\ ret.op = "call_options"
  /\ ret.value = NaN
----------------------------------------------------------------------------
(* Properties of the VaR calculator                                        *)

Len1 == Len(var.market_rate_1.data)
Len2 == Len(var.market_rate_2.data)

\* the length of the P&L vector of a series of n rates
PnlLen(n) == IF n = 0 THEN 0 ELSE n - 1

\* the constructor was given two arrays and two numbers
VaRArgsPass(a) ==
  /\ a.market_rate_1.type = "ndarray"
  /\ a.market_rate_2.type = "ndarray"
  /\ IsNumber(a.spot_price_1)
  /\ IsNumber(a.spot_price_2)

\* C5 as stated: for series of different lengths construction succeeds and
\* every total_pnl() and var_cal_oneday() ends in a shape/broadcast failure.
C5_UnequalLengthsAlwaysFail ==
  /\ (ret.op = "var_init" /\ VaRArgsPass(ret.args)) =>
       (ret.raised = "" /\ HasVar)
  /\ (HasVar /\ Len1 # Len2) =>
       (ret.op \in {"total_pnl", "var_cal_oneday"} => ret.raised = "ValueError")

\* C5 as amended: for series of different lengths n1 and n2 construction
\* succeeds; with m = max(n - 1, 0) the lengths of the two P&L vectors,
\* total_pnl() ends in the broadcast failure exactly when m1 # m2 and
\* neither is 1, and otherwise returns a vector of the common length (n1, n2
\* are 0 and 1) or of the length of the longer vector (the one-element
\* vector is broadcast); var_cal_oneday() returns a value exactly when that
\* vector has at least 3 elements, and fails otherwise.
C5_UnequalLengths ==
  /\ (ret.op = "var_init" /\ VaRArgsPass(ret.args)) =>
       (ret.raised = "" /\ HasVar)
  /\ (HasVar /\ Len1 # Len2) =>
       LET m1 == PnlLen(Len1)
           m2 == PnlLen(Len2)
           fails == m1 # m2 /\ m1 # 1 /\ m2 # 1
           len == IF m1 = m2 THEN m1 ELSE IF m1 = 1 THEN m2 ELSE m1
       IN  /\ ret.op = "total_pnl" =>
                IF fails THEN ret.raised = "ValueError"
                ELSE ret.raised = "" /\ Len(ret.vec) = len
           /\ ret.op = "var_cal_oneday" =>
                IF fails THEN ret.raised = "ValueError"
                ELSE IF len < 3 THEN ret.raised = "IndexError"
                ELSE ret.raised = ""

\* series of 2 and of 5 rates gave a VaR value
C5_Witness ==
  /\ HasVar
  /\ Len1 = 2 /\ Len2 = 5
  /\ ret.op = "var_cal_oneday"
  /\ ret.raised = ""

\* the element-wise sums of the two P&L vectors of equal-length series
CombinedPnl ==
  LET p1 == pnl_vector(var.spot_price_1, var.market_rate_1)
      p2 == pnl_vector(var.spot_price_2, var.market_rate_2)
  IN  [i \in 1..Len(p1) |-> FAdd(p1[i], p2[i])]

Count(s, v) == Cardinality({i \in 1..Len(s) : s[i] = v})

\* the k-th smallest element of s, counted from 1
KthSmallest(s, k) ==
  CHOOSE v \in {s[i] : i \in 1..Len(s)} :
    /\ Cardinality({i \in 1..Len(s) : s[i] < v}) < k
    /\ Cardinality({i \in 1..Len(s) : s[i] <= v}) >= k

\* C6: for series of equal length n, var_cal_oneday() returns 0.4 * p1 + 0.6
\* * p2, the elements at positions 1 and 2 (from 0) of the ascending combined
\* P&L vector, when n >= 4, and fails with IndexError when n <= 3.
C6_OneDayVaR ==
  (HasVar /\ Len1 = Len2 /\ ret.op = "var_cal_oneday") =>
    IF Len1 >= 4
    THEN /\ ret.raised = ""
         /\ ret.value = FAdd(FMul(4 * (Scale \div 10), KthSmallest(CombinedPnl, 2)),
                             FMul(6 * (Scale \div 10), KthSmallest(CombinedPnl, 3)))
    ELSE ret.raised = "IndexError"

\* a VaR value came from a combined vector whose three smallest elements
\* differ
C6_Witness ==
  /\ HasVar
  /\ Len1 = 5 /\ Len2 = 5
  /\ ret.op = "var_cal_oneday"
  /\ ret.raised = ""
  /\ KthSmallest(CombinedPnl, 1) < KthSmallest(CombinedPnl, 2)
  /\ KthSmallest(CombinedPnl, 2) < KthSmallest(CombinedPnl, 3)

\* C7: construction raises whenever a rate series is not a numpy array or a
\* holding is not an integer or floating-point number, and succeeds whenever
\* all four arguments pass, whatever the series hold.
C7_VaRValidation ==
  ret.op = "var_init" =>
    /\ ~VaRArgsPass(ret.args) => (ret.raised = "ValueError" /\ ~HasVar)
    /\ VaRArgsPass(ret.args) => (ret.raised = "" /\ HasVar)

\* the rounding the exp(log(x)) round trip is allowed: 1e-4
PnlTolerance == Scale \div 10000

\* C10 in a state: for equal-length series of n >= 1 rates, pnl_vector(h, r)
\* has n - 1 elements, element i being (r[i] / r[i+1] - 1) * h up to
\* rounding, and total_pnl() has n - 1 elements in ascending order that are,
\* as a multiset, the element-wise sums of the two P&L vectors.
C10_State ==
  (HasVar /\ Len1 = Len2 /\ Len1 >= 1) =>
    /\ ret.op = "pnl_vector" =>
         LET h == IF ret.value = 1 THEN var.spot_price_1.val
                  ELSE var.spot_price_2.val
             r == IF ret.value = 1 THEN var.market_rate_1.data
                  ELSE var.market_rate_2.data
         IN  /\ ret.raised = ""
             /\ Len(ret.vec) = Len1 - 1
             /\ \A i \in 1..(Len1 - 1) :
                  Abs(ret.vec[i] - FMul(FSub(FDiv(r[i], r[i + 1]), Scale), h))
                    <= PnlTolerance
    /\ ret.op = "total_pnl" =>
         /\ ret.raised = ""
         /\ Len(ret.vec) = Len1 - 1
         /\ \A i \in 1..(Len1 - 2) : ret.vec[i] <= ret.vec[i + 1]
         /\ \A i \in 1..(Len1 - 1) :
              /\ Count(ret.vec, ret.vec[i]) = Count(CombinedPnl, ret.vec[i])
              /\ Count(ret.vec, CombinedPnl[i]) = Count(CombinedPnl, CombinedPnl[i])

\* C10: C10_State always holds, and computing a P&L vector or the total
\* leaves the stored series and holdings as they were.
C10_PnlVectors ==
  /\ []C10_State
  /\ [][ret'.op \in {"pnl_vector", "total_pnl"} => var' = var]_vars

\* total_pnl() returned four elements in an order other than that of the sums
C10_Witness ==
  /\ HasVar
  /\ Len1 = 5 /\ Len2 = 5
  /\ ret.op = "total_pnl"
  /\ ret.raised = ""
  /\ ret.vec # CombinedPnl
  /\ ret.vec[1] < ret.vec[4]

=============================================================================
